---------------------------- MODULE Spec2Model ----------------------------
(***************************************************************************)
(* A model of spark-cbrain: the command-line layer that validates the      *)
(* arguments of a SPARK analysis, writes the pipeline options file, calls  *)
(* the standalone executable through the shell and renames its outputs.    *)
(*                                                                         *)
(* One behaviour is one invocation of spark.py: the command line, the      *)
(* file system and the verdict of the BIDS validator are chosen in Init,   *)
(* and the actions are the steps of spark(), setup(), run() and wrapup().  *)
(* What the environment decides during the invocation (a file-system       *)
(* call that fails, the exit status of a child process) is chosen by the   *)
(* action where the code meets it.                                         *)
(*                                                                         *)
(* Strings are TLA+ strings, read with Len, SubSeq and \o, so that split,  *)
(* startswith, endswith, re.sub and shlex.quote are computed character by  *)
(* character as Python computes them.                                      *)
(***************************************************************************)
EXTENDS Integers, Sequences, FiniteSets, TLC

VARIABLES
    argv,       \* the command line of the invocation, as argparse reads it
    files,      \* file system: the paths that are regular files
    dirs,       \* file system: the paths that are directories
    opt_text,   \* the lines of the pipeline options file (.opt)
    is_bids,    \* what BIDSValidator().is_bids answers for this fMRI file
    pc,         \* where the invocation stands
    oargs,      \* the handler's checked arguments (check_iargs's result)
    called,     \* the handlers spark() has called, in order
    outcome,    \* "running", "exit0", "exit1" (sys_exit) or "traceback"
    stderr,     \* the diagnostics printed to the error stream, in order
    stdout,     \* what was printed to the output stream
    shell       \* the commands the shell has run: [words, rc], in order

vars == <<argv, files, dirs, opt_text, is_bids, pc, oargs, called, outcome,
          stderr, stdout, shell>>

---------------------------------------------------------------------------
(* Bounds of the model *)

\* Longest --jobs-indices list.
MaxJobs == 2
\* Largest job index (the smallest is 0, which the range check refuses).
MaxIndex == 2
\* Most underscore-delimited tokens in a generated fMRI filename.
MaxTokens == 4

---------------------------------------------------------------------------
(* Python's str and os.path, on TLA+ strings *)

Char(s, i) == SubSeq(s, i, i)

StartsWith(s, p) == Len(s) >= Len(p) /\ SubSeq(s, 1, Len(p)) = p

EndsWith(s, p) == Len(s) >= Len(p) /\ SubSeq(s, Len(s) - Len(p) + 1, Len(s)) = p

\* s[n:]
SliceFrom(s, n) == SubSeq(s, n + 1, Len(s))

\* s[:-n]; Python reads s[:-0] as s[:0], the empty string.
SliceDropLast(s, n) == IF n = 0 THEN "" ELSE SubSeq(s, 1, Len(s) - n)

\* seq[a:b] of a list, 0-based, clipped to the list as Python clips it.
ListSlice(seq, a, b) ==
    LET hi == IF b < Len(seq) THEN b ELSE Len(seq)
    IN  IF a >= hi THEN <<>> ELSE SubSeq(seq, a + 1, hi)

RECURSIVE ConcatRange(_, _, _)
\* The strings f[lo], ..., f[hi] put end to end.
ConcatRange(f, lo, hi) ==
    IF lo > hi THEN ""
    ELSE IF lo = hi THEN f[lo]
    ELSE ConcatRange(f, lo, (lo + hi) \div 2)
         \o ConcatRange(f, ((lo + hi) \div 2) + 1, hi)

\* The k-th smallest element of a set of numbers.
Nth(P, k) == CHOOSE p \in P : Cardinality({q \in P : q < p}) = k - 1

\* s.split(sep) for a one-character separator.
Split(s, sep) ==
    LET P == {i \in 1..Len(s) : Char(s, i) = sep}
        n == Cardinality(P)
        at(k) == IF k = 0 THEN 0 ELSE IF k = n + 1 THEN Len(s) + 1 ELSE Nth(P, k)
    IN  [k \in 1..(n + 1) |-> SubSeq(s, at(k - 1) + 1, at(k) - 1)]

RECURSIVE Join(_, _)
\* sep.join(seq)
Join(seq, sep) ==
    IF seq = <<>> THEN ""
    ELSE IF Len(seq) = 1 THEN seq[1]
    ELSE seq[1] \o sep \o Join(Tail(seq), sep)

\* The last position of character c in s[1..i], 0 when there is none.
LastIndexOf(s, c, i) ==
    LET P == {j \in 1..i : Char(s, j) = c}
    IN  IF P = {} THEN 0 ELSE CHOOSE j \in P : \A k \in P : k <= j

\* os.path.basename
basename(p) == SliceFrom(p, LastIndexOf(p, "/", Len(p)))

\* os.path.dirname, for a path below the root
dirname(p) ==
    LET i == LastIndexOf(p, "/", Len(p))
    IN  IF i <= 1 THEN SubSeq(p, 1, i) ELSE SubSeq(p, 1, i - 1)

\* os.sep.join
PathJoin(parts) == Join(parts, "/")

\* os.path.splitext(name)[0] of a file name: the name up to its last dot,
\* the whole name when it has no dot or only a leading one.
splitext_root(name) ==
    LET i == LastIndexOf(name, ".", Len(name))
    IN  IF i <= 1 THEN name ELSE SubSeq(name, 1, i - 1)

Digits == "0123456789"

RECURSIVE NatStr(_)
NatStr(n) == IF n < 10 THEN Char(Digits, n + 1)
             ELSE NatStr(n \div 10) \o Char(Digits, (n % 10) + 1)

\* str(n) of an int
IntStr(n) == IF n < 0 THEN "-" \o NatStr(-n) ELSE NatStr(n)

\* The characters \w matches (ASCII).
WordChars ==
    {"a","b","c","d","e","f","g","h","i","j","k","l","m",
     "n","o","p","q","r","s","t","u","v","w","x","y","z",
     "A","B","C","D","E","F","G","H","I","J","K","L","M",
     "N","O","P","Q","R","S","T","U","V","W","X","Y","Z",
     "0","1","2","3","4","5","6","7","8","9","_"}

\* A substitution that puts an underscore for each character that is not a
\* word character, where the code puts one for each run of them.
sub_nonword_each(s) ==
    ConcatRange([i \in 1..Len(s) |->
                    IF Char(s, i) \in WordChars THEN Char(s, i) ELSE "_"],
                1, Len(s))

\* re.sub(r'\W+', '_', s): every maximal run of non-word characters becomes
\* one underscore.
sub_nonword(s) ==
    ConcatRange([i \in 1..Len(s) |->
                    IF Char(s, i) \in WordChars THEN Char(s, i)
                    ELSE IF i > 1 /\ Char(s, i - 1) \notin WordChars THEN ""
                    ELSE "_"],
                1, Len(s))

\* The working directory of the process.
Cwd == "/w"

\* os.path.abspath of a normalised path (no '.', '..' or doubled '/').
abspath(p) == IF StartsWith(p, "/") THEN p ELSE Cwd \o "/" \o p

---------------------------------------------------------------------------
(* Python floats, as far as --p-value is compared and printed: a float is  *)
(* a number, here in hundredths, or NaN, and every comparison with NaN is  *)
(* false.                                                                  *)

Float(h) == [nan |-> FALSE, hundredths |-> h]
NaN == [nan |-> TRUE, hundredths |-> 0]

\* f < n and f > n for a float f and an int n
FloatLtInt(f, n) == ~f.nan /\ f.hundredths < 100 * n
FloatGtInt(f, n) == ~f.nan /\ f.hundredths > 100 * n

\* str(f) of such a float
FloatStr(f) ==
    IF f.nan THEN "nan"
    ELSE LET a == IF f.hundredths < 0 THEN -f.hundredths ELSE f.hundredths
             frac == a % 100
         IN  (IF f.hundredths < 0 THEN "-" ELSE "")
             \o NatStr(a \div 100) \o "."
             \o (IF frac % 10 = 0 THEN NatStr(frac \div 10)
                 ELSE NatStr(frac \div 10) \o NatStr(frac % 10))

---------------------------------------------------------------------------
(* shlex.quote, and the shell that subprocess.run(cmd, shell=True) starts *)

\* The characters shlex.quote leaves alone: [\w@%+=:,./-]
SafeChars == WordChars \cup {"@", "%", "+", "=", ":", ",", ".", "/", "-"}

\* shlex.quote(s)
quote(s) ==
    IF s = "" THEN "''"
    ELSE IF \A i \in 1..Len(s) : Char(s, i) \in SafeChars THEN s
    ELSE "'" \o ConcatRange([i \in 1..Len(s) |->
                                IF Char(s, i) = "'" THEN "'\"'\"'"
                                ELSE Char(s, i)],
                            1, Len(s))
         \o "'"

\* What one character does to the shell's reading of a command line when
\* the quote q is open ("" for none): the quote open after it, and "L" and
\* the character for a character of a word, "Q" for a quote that opens or
\* closes, "S" for a space between words, ";" for the end of a command.
\* Quoted text is literal.  The command lines built here hold no other
\* operator of the shell outside quotes.
ShChar(q, c) ==
    IF q # ""
    THEN IF c = q THEN [q |-> "", lex |-> "Q"] ELSE [q |-> q, lex |-> "L" \o c]
    ELSE IF c = "'" \/ c = "\"" THEN [q |-> c, lex |-> "Q"]
    ELSE IF c = " " THEN [q |-> "", lex |-> "S"]
    ELSE IF c = ";" THEN [q |-> "", lex |-> ";"]
    ELSE [q |-> "", lex |-> "L" \o c]

RECURSIVE ShLex(_, _, _, _)
\* The reading of s[lo..hi] when the quote q is open before it: the quote
\* open after it and what was read, one entry for each character.
ShLex(s, lo, hi, q) ==
    IF lo > hi THEN [q |-> q, lex |-> <<>>]
    ELSE IF lo = hi
    THEN [q |-> ShChar(q, Char(s, lo)).q, lex |-> <<ShChar(q, Char(s, lo)).lex>>]
    ELSE LET left == ShLex(s, lo, (lo + hi) \div 2, q)
         IN  IF left.q = "" \/ left.q # ""   \* the left half is read first
             THEN LET right == ShLex(s, ((lo + hi) \div 2) + 1, hi, left.q)
                  IN  [q |-> right.q, lex |-> left.lex \o right.lex]
             ELSE left

\* A sequence cut at every element equal to sep.
SplitSeq(seq, sep) ==
    LET P == {i \in 1..Len(seq) : seq[i] = sep}
        n == Cardinality(P)
        at(k) == IF k = 0 THEN 0 ELSE IF k = n + 1 THEN Len(seq) + 1 ELSE Nth(P, k)
    IN  [k \in 1..(n + 1) |-> SubSeq(seq, at(k - 1) + 1, at(k) - 1)]

\* The text of a word: its characters, the quotes removed.
ShWord(lex) ==
    ConcatRange([i \in 1..Len(lex) |->
                    IF lex[i] = "Q" THEN "" ELSE SliceFrom(lex[i], 1)],
                1, Len(lex))

\* The words of one command.
ShWords(lex) ==
    LET parts == SelectSeq(SplitSeq(lex, "S"), LAMBDA w : w # <<>>)
    IN  [k \in 1..Len(parts) |-> ShWord(parts[k])]

\* The simple commands of a command line, each the sequence of its words.
ShellCommands(cmd) ==
    LET parts == SplitSeq(ShLex(cmd, 1, Len(cmd), "").lex, ";")
        words == [k \in 1..Len(parts) |-> ShWords(parts[k])]
    IN  SelectSeq(words, LAMBDA ws : ws # <<>>)

\* The exit statuses a command can end with: the standalone executable
\* succeeds or fails; for any other command word the shell answers 127
\* (command not found), unless a program of that name is on the PATH and
\* succeeds.
ChildStatuses(words, exe) == IF words[1] = exe THEN {0, 1} ELSE {0, 127}

\* subprocess.run(cmd, shell=True, cwd=cwd) whose commands end with the
\* statuses rcs: the shell runs every command of the line, in order.
sp_run(cmd, cwd, rcs) ==
    LET cs == ShellCommands(cmd)
    IN  [i \in 1..Len(cs) |->
            [line |-> cmd, cwd |-> cwd, words |-> cs[i], rc |-> rcs[i]]]

\* The statuses the commands of cmd can end with.
RunStatuses(cmd, exe) ==
    LET cs == ShellCommands(cmd)
    IN  {rcs \in [1..Len(cs) -> {0, 1, 127}] :
            \A i \in 1..Len(cs) : rcs[i] \in ChildStatuses(cs[i], exe)}

\* p.returncode: the status of the last command of the line.
returncode(run) == run[Len(run)].rc

---------------------------------------------------------------------------
(* spark.py: the entry dispatcher *)

\* get_default_exe(): spark_samapp beside spark.py, installed in /a.
get_default_exe == "/a/spark_samapp"

\* iargs = ['--exe', get_default_exe()] + iargs
spark_iargs(av) == [av EXCEPT !.exe = <<get_default_exe>> \o av.exe]

\* A dispatcher that refuses only three flags at once.
spark_select_pairs(modes) ==
    IF Cardinality(modes \cap {"--SETUP", "--RUN", "--WRAP-UP"}) > 2 THEN "mutex"
    ELSE IF "--SETUP" \in modes THEN "setup"
    ELSE IF "--RUN" \in modes THEN "run"
    ELSE IF "--WRAP-UP" \in modes THEN "wrapup"
    ELSE "help"

\* What spark() does with the mode flags found in iargs: "mutex" (more than
\* one: exit 1), the handler to call, or "help".
spark_select(modes) ==
    LET do_setup  == "--SETUP" \in modes
        do_run    == "--RUN" \in modes
        do_wrapup == "--WRAP-UP" \in modes
        sum == (IF do_setup THEN 1 ELSE 0) + (IF do_run THEN 1 ELSE 0)
               + (IF do_wrapup THEN 1 ELSE 0)
    IN  IF sum > 1 THEN "mutex"
        ELSE IF do_setup THEN "setup"
        ELSE IF do_run THEN "run"
        ELSE IF do_wrapup THEN "wrapup"
        ELSE "help"

Handlers == {"setup", "run", "wrapup"}

---------------------------------------------------------------------------
(* What the three handlers share *)

\* os.path.isfile
isfile(fs, p) == p \in fs

\* An argparse that keeps the first --exe of the argument list.
parsed_exe_first(ia) == ia.exe[1]

\* argparse keeps the last --exe of the argument list.
parsed_exe(ia) == ia.exe[Len(ia.exe)]

\* The checked arguments before any handler has checked them.
NoArgs == [exe |-> "", fmri |-> "", out_dir |-> "", mask |-> "",
           pipe_file |-> "", fmri_list |-> <<>>]

RECURSIVE Ancestors(_)
\* A directory and the directories above it, the root left out.
Ancestors(d) == IF d = "" \/ d = "/" THEN {} ELSE {d} \cup Ancestors(dirname(d))

---------------------------------------------------------------------------
(* spark/setup.py *)

\* make_dirs(dir_path) on the directories ds and the files fs, where fault
\* says that os.makedirs fails with an error other than EEXIST: the
\* directories afterwards, what is printed, and whether sys_exit(1) is
\* called.
make_dirs(dir_path, ds, fs, fault) ==
    IF dir_path \in ds \cup fs
    THEN [dirs |-> ds, printed |-> <<"Old files might get replaced">>,
          exit |-> FALSE]
    ELSE IF fault
    THEN [dirs |-> ds, printed |-> <<"Failed to create the directory">>,
          exit |-> TRUE]
    ELSE [dirs |-> ds \cup Ancestors(dir_path), printed |-> <<>>,
          exit |-> FALSE]

\* A setup_fmri that does not consult the validator.
setup_fmri_unvalidated(fmri, verdict) ==
    LET filename == basename(fmri)
        tokens   == Split(filename, "_")
        n        == Len(tokens)
    IN  IF ~StartsWith(tokens[1], "sub-") \/ n < 2
        THEN [status |-> "exit1",
              diag |-> "Invalid BIDS file, the filename does not start with sub-",
              val |-> <<>>]
        ELSE [status |-> "ok", diag |-> "",
              val |-> <<SliceDropLast(filename, Len(SliceFrom(tokens[n], 4))),
                        sub_nonword(tokens[1]),
                        IF StartsWith(tokens[2], "ses-")
                        THEN sub_nonword(tokens[2]) ELSE "ses_cspark_1",
                        IF StartsWith(tokens[n - 1], "run-")
                        THEN sub_nonword(tokens[n - 1]) ELSE "run_cspark_1",
                        fmri>>]

\* A setup_fmri that takes the session and the run from the first token
\* with the prefix, wherever it stands.
setup_fmri_anywhere(fmri, verdict) ==
    LET filename == basename(fmri)
        tokens   == Split(filename, "_")
        n        == Len(tokens)
        first(prefix, placeholder) ==
            LET at == {i \in 1..n : StartsWith(tokens[i], prefix)}
            IN  IF at = {} THEN placeholder
                ELSE sub_nonword(tokens[CHOOSE i \in at : \A j \in at : i <= j])
    IN  IF ~StartsWith(tokens[1], "sub-")
        THEN [status |-> "exit1",
              diag |-> "Invalid BIDS file, the filename does not start with sub-",
              val |-> <<>>]
        ELSE IF verdict # "valid"
        THEN [status |-> "exit1", diag |-> "Invalid BIDS file", val |-> <<>>]
        ELSE [status |-> "ok", diag |-> "",
              val |-> <<SliceDropLast(filename, Len(SliceFrom(tokens[n], 4))),
                        sub_nonword(tokens[1]),
                        first("ses-", "ses_cspark_1"),
                        first("run-", "run_cspark_1"),
                        fmri>>]

\* setup_fmri(fmri), where verdict is the validator's answer for the path
\* built from the first token: [status, diag, val], status "ok" with the
\* list returned, "exit1" with the diagnostic printed, or "traceback" for
\* the IndexError of tokens[1] on a one-token filename.
setup_fmri(fmri, verdict) ==
    LET filename == basename(fmri)
        tokens   == Split(filename, "_")
        n        == Len(tokens)
    IN  IF ~StartsWith(tokens[1], "sub-")
        THEN [status |-> "exit1",
              diag |-> "Invalid BIDS file, the filename does not start with sub-",
              val |-> <<>>]
        ELSE IF verdict # "valid"
        THEN [status |-> "exit1", diag |-> "Invalid BIDS file", val |-> <<>>]
        ELSE IF n < 2
        THEN [status |-> "traceback", diag |-> "IndexError", val |-> <<>>]
        ELSE
        LET sub_id == sub_nonword(tokens[1])
            ses_id == IF StartsWith(tokens[2], "ses-")
                      THEN sub_nonword(tokens[2]) ELSE "ses_cspark_1"
            run_id == IF StartsWith(tokens[n - 1], "run-")
                      THEN sub_nonword(tokens[n - 1]) ELSE "run_cspark_1"
            base   == SliceDropLast(filename, Len(SliceFrom(tokens[n], 4)))
        IN  [status |-> "ok", diag |-> "",
             val |-> <<base, sub_id, ses_id, run_id, fmri>>]

\* Whether setup_fmri consults the validator for this path.
setup_fmri_asks(fmri) == StartsWith(Split(basename(fmri), "_")[1], "sub-")

\* The answers BIDSValidator().is_bids can give for /<token>/func/<filename>.
\* The validator is a library; all that is used of it is that it refuses a
\* filename of a single token (a BIDS name is sub-<label>_..._<suffix>).
BidsVerdicts(fmri) ==
    IF Len(Split(basename(fmri), "_")) >= 2 THEN {"valid", "invalid"}
    ELSE {"invalid"}

\* File checks that take a mask of any format.
setup_check_files_any_format(a, fs) ==
    IF ~isfile(fs, a.exe) THEN "--exe: Invalid or nonexistent file"
    ELSE IF ~isfile(fs, a.fmri) THEN "--fmri: Invalid or nonexistent file"
    ELSE IF ~isfile(fs, a.mask) THEN "--mask: Invalid or nonexistent file"
    ELSE ""

\* check_iargs_integrity, the files: the executable, the fMRI, the mask and
\* its format.  The diagnostic printed before sys_exit(1), "" for none.
setup_check_files(a, fs) ==
    IF ~isfile(fs, a.exe) THEN "--exe: Invalid or nonexistent file"
    ELSE IF ~isfile(fs, a.fmri) THEN "--fmri: Invalid or nonexistent file"
    ELSE IF ~isfile(fs, a.mask) THEN "--mask: Invalid or nonexistent file"
    ELSE IF ~(EndsWith(a.mask, ".mnc") \/ EndsWith(a.mask, ".nii"))
    THEN "--mask: File is not MINC (.mnc) or NIfTI (.nii)"
    ELSE ""

\* check_iargs_integrity, the ranges.
setup_check_ranges(a) ==
    IF a.nb_resamplings < 2
    THEN "--nb-resamplings: Number of resamplings smaller than 2"
    ELSE IF \E i \in 1..3 : a.network_scales[i] < 1
    THEN "--network-scales: One element is smaller than 1"
    ELSE IF a.network_scales[3] < a.network_scales[1]
    THEN "--network-scales: [begin] is greather than [end]"
    ELSE IF a.nb_iterations < 2
    THEN "--nb-iterations: Number of iterations smaller than 2"
    ELSE IF FloatLtInt(a.p_value, 0) \/ FloatGtInt(a.p_value, 1)
    THEN "--p-value: P-value not between 0 and 1"
    ELSE IF \E i \in 1..3 : a.block_window_length[i] < 1
    THEN "--block-window-length: One element is smaller than 1"
    ELSE IF a.block_window_length[3] < a.block_window_length[1]
    THEN "--block-window-length: [begin] is greather than [end]"
    ELSE ""

\* Checks that look at the ranges before the files.
setup_check_ranges_first(a, fs) ==
    IF setup_check_ranges(a) # "" THEN setup_check_ranges(a)
    ELSE setup_check_files(a, fs)

\* check_iargs_integrity(iargs): the first check that fails decides.
setup_check_iargs_integrity(a, fs) ==
    IF setup_check_files(a, fs) # "" THEN setup_check_files(a, fs)
    ELSE setup_check_ranges(a)

\* check_iargs_parser followed by setup_abspath
setup_abspath(ia) ==
    [ia EXCEPT !.exe = abspath(parsed_exe(ia)), !.fmri = abspath(ia.fmri),
               !.out_dir = abspath(ia.out_dir), !.mask = abspath(ia.mask)]

\* check_iargs(iargs): [status, diag, oargs]
setup_check_iargs(ia, fs, verdict) ==
    LET a == setup_abspath(ia)
        d == setup_check_iargs_integrity(a, fs)
        f == setup_fmri(a.fmri, verdict)
    IN  IF d # "" THEN [status |-> "exit1", diag |-> d, oargs |-> NoArgs]
        ELSE IF f.status # "ok"
        THEN [status |-> f.status, diag |-> f.diag, oargs |-> NoArgs]
        ELSE [status |-> "ok", diag |-> "",
              oargs |-> [exe |-> a.exe, fmri |-> a.fmri, out_dir |-> a.out_dir,
                         mask |-> a.mask, pipe_file |-> "",
                         fmri_list |-> f.val]]

\* setup_pipes: the directory of the analysis, of its pipelines, and the
\* options file.
setup_out_dir(o) == PathJoin(<<o.out_dir, o.fmri_list[1]>>)
setup_pipes_dir(o) == PathJoin(<<setup_out_dir(o), "pipelines">>)
setup_pipe_opt(o) == PathJoin(<<setup_pipes_dir(o), o.fmri_list[1] \o ".opt">>)

BoolStr(b) == IF b THEN "1" ELSE "0"

\* Options lines with the vector parameters joined by commas.
setup_opt_lines_commas(av, o) ==
    <<"pipe_file " \o SliceDropLast(setup_pipe_opt(o), 4) \o ".mat" \o "\n",
      "fmri_data " \o Join(Tail(o.fmri_list), " ") \o "\n",
      "out_dir " \o setup_out_dir(o) \o "\n",
      "mask " \o o.mask \o "\n",
      "nb_resamplings " \o IntStr(av.nb_resamplings) \o "\n",
      "network_scales "
          \o Join([i \in 1..3 |-> IntStr(av.network_scales[i])], ",") \o "\n",
      "nb_iterations " \o IntStr(av.nb_iterations) \o "\n",
      "p_value " \o FloatStr(av.p_value) \o "\n",
      "resampling_method " \o av.resampling_method \o "\n",
      "block_window_length "
          \o Join([i \in 1..3 |-> IntStr(av.block_window_length[i])], ",") \o "\n",
      "dict_init_method " \o av.dict_init_method \o "\n",
      "sparse_coding_method " \o av.sparse_coding_method \o "\n",
      "preserve_dc_atom " \o BoolStr(av.preserve_dc_atom) \o "\n",
      "verbose " \o BoolStr(av.verbose) \o "\n">>

\* The lines setup_pipes writes to the options file, each with its '\n'.
setup_opt_lines(av, o) ==
    <<"pipe_file " \o SliceDropLast(setup_pipe_opt(o), 4) \o ".mat" \o "\n",
      "fmri_data " \o Join(Tail(o.fmri_list), " ") \o "\n",
      "out_dir " \o setup_out_dir(o) \o "\n",
      "mask " \o o.mask \o "\n",
      "nb_resamplings " \o IntStr(av.nb_resamplings) \o "\n",
      "network_scales "
          \o Join([i \in 1..3 |-> IntStr(av.network_scales[i])], " ") \o "\n",
      "nb_iterations " \o IntStr(av.nb_iterations) \o "\n",
      "p_value " \o FloatStr(av.p_value) \o "\n",
      "resampling_method " \o av.resampling_method \o "\n",
      "block_window_length "
          \o Join([i \in 1..3 |-> IntStr(av.block_window_length[i])], " ") \o "\n",
      "dict_init_method " \o av.dict_init_method \o "\n",
      "sparse_coding_method " \o av.sparse_coding_method \o "\n",
      "preserve_dc_atom " \o BoolStr(av.preserve_dc_atom) \o "\n",
      "verbose " \o BoolStr(av.verbose) \o "\n">>

\* The command line of setup_pipes.
setup_cmd(o) == quote(o.exe) \o " setup " \o quote(setup_pipe_opt(o))

---------------------------------------------------------------------------
(* spark/run.py *)

\* get_bids_fmri_filename(fmri)
run_get_bids_fmri_filename(fmri) ==
    LET filename  == basename(fmri)
        tokens    == Split(filename, "_")
        extension == SliceFrom(tokens[Len(tokens)], 4)
    IN  SliceDropLast(filename, Len(extension))

\* get_pipe_file(out_dir, fmri)
run_get_pipe_file(out_dir, fmri) ==
    LET filename == run_get_bids_fmri_filename(fmri)
    IN  PathJoin(<<out_dir, filename, "pipelines", filename \o ".mat">>)

\* Checks of run that do not look for the pipeline file.
run_check_without_pipe_file(a, fs) ==
    IF ~isfile(fs, a.exe) THEN "--exe: Invalid or nonexistent file"
    ELSE IF a.jobs_indices # <<>>
            /\ \E i \in 1..Len(a.jobs_indices) : a.jobs_indices[i] < 1
    THEN "--jobs-indices: One of the elements is smaller than 1"
    ELSE ""

\* Checks of run that look at the first index only.
run_check_first_index(a, fs) ==
    IF ~isfile(fs, a.exe) THEN "--exe: Invalid or nonexistent file"
    ELSE IF ~isfile(fs, a.pipe_file) THEN "Pipeline file not found"
    ELSE IF a.jobs_indices # <<>> /\ a.jobs_indices[1] < 1
    THEN "--jobs-indices: One of the elements is smaller than 1"
    ELSE ""

\* check_iargs_integrity(iargs): the diagnostic printed before sys_exit(1),
\* "" for none.
run_check_iargs_integrity(a, fs) ==
    IF ~isfile(fs, a.exe) THEN "--exe: Invalid or nonexistent file"
    ELSE IF ~isfile(fs, a.pipe_file) THEN "Pipeline file not found"
    ELSE IF a.jobs_indices # <<>>
            /\ \E i \in 1..Len(a.jobs_indices) : a.jobs_indices[i] < 1
    THEN "--jobs-indices: One of the elements is smaller than 1"
    ELSE ""

\* check_iargs_parser, setup_abspath and get_pipe_file
run_abspath(ia) ==
    LET a == [ia EXCEPT !.exe = abspath(parsed_exe(ia)),
                        !.fmri = abspath(ia.fmri),
                        !.out_dir = abspath(ia.out_dir)]
    IN  [exe |-> a.exe, fmri |-> a.fmri, out_dir |-> a.out_dir, mask |-> "",
         pipe_file |-> run_get_pipe_file(a.out_dir, a.fmri),
         fmri_list |-> <<>>, jobs_indices |-> a.jobs_indices]

\* check_iargs(iargs): [status, diag, oargs]
run_check_iargs(ia, fs) ==
    LET a == run_abspath(ia)
        d == run_check_iargs_integrity(a, fs)
    IN  IF d # "" THEN [status |-> "exit1", diag |-> d, oargs |-> NoArgs]
        ELSE [status |-> "ok", diag |-> "",
              oargs |-> [exe |-> a.exe, fmri |-> a.fmri, out_dir |-> a.out_dir,
                         mask |-> "", pipe_file |-> a.pipe_file,
                         fmri_list |-> <<>>]]

\* A job filter in which the indices take precedence over the patterns.
run_jobs_indices_first(av) ==
    IF av.jobs_indices # <<>>
    THEN Join([i \in 1..Len(av.jobs_indices) |->
                  IntStr(av.jobs_indices[i])], ";") \o ";"
    ELSE Join([i \in 1..Len(av.jobs_patterns) |->
                  quote(av.jobs_patterns[i])], " ")

\* run_pipe: the job filter put at the end of the command line.
run_jobs_patterns(av) ==
    LET from_indices ==
            IF av.jobs_indices # <<>>
            THEN Join([i \in 1..Len(av.jobs_indices) |->
                          IntStr(av.jobs_indices[i])], ";") \o ";"
            ELSE ""
    IN  IF av.jobs_patterns # <<>>
        THEN Join([i \in 1..Len(av.jobs_patterns) |->
                      quote(av.jobs_patterns[i])], " ")
        ELSE from_indices

\* The command line of run_pipe.
run_cmd(av, o) ==
    quote(o.exe) \o " run " \o quote(o.pipe_file) \o " " \o av.stage \o " "
    \o run_jobs_patterns(av)

---------------------------------------------------------------------------
(* spark/wrapup.py *)

\* get_bids_fmri_filename(fmri)
wrapup_get_bids_fmri_filename(fmri) ==
    LET filename  == basename(fmri)
        tokens    == Split(filename, "_")
        extension == SliceFrom(tokens[Len(tokens)], 4)
    IN  SliceDropLast(filename, Len(extension))

\* get_pipe_file(out_dir, fmri)
wrapup_get_pipe_file(out_dir, fmri) ==
    LET filename == wrapup_get_bids_fmri_filename(fmri)
    IN  PathJoin(<<out_dir, filename, "pipelines", filename \o ".opt">>)

\* check_iargs_integrity(iargs)
wrapup_check_iargs_integrity(a, fs) ==
    IF ~isfile(fs, a.pipe_file) THEN "Pipeline file not found" ELSE ""

\* check_iargs(iargs): [status, diag, oargs]
wrapup_check_iargs(ia, fs) ==
    LET out_dir == abspath(ia.out_dir)
        fmri    == abspath(ia.fmri)
        a == [exe |-> "", fmri |-> fmri, out_dir |-> out_dir, mask |-> "",
              pipe_file |-> wrapup_get_pipe_file(out_dir, fmri),
              fmri_list |-> <<>>]
        d == wrapup_check_iargs_integrity(a, fs)
    IN  IF d # "" THEN [status |-> "exit1", diag |-> d, oargs |-> NoArgs]
        ELSE [status |-> "ok", diag |-> "", oargs |-> a]

\* get_bids_filename(pipe_file)
get_bids_filename(pipe_file) == splitext_root(basename(pipe_file))

RECURSIVE FirstFmriDataOfTwo(_, _)
\* A reading that joins two tokens after the key, where the code joins three.
FirstFmriDataOfTwo(lines, i) ==
    IF i > Len(lines) THEN ""
    ELSE IF StartsWith(lines[i], "fmri_data ")
    THEN Join(ListSlice(Split(lines[i], " "), 1, 3), "_")
    ELSE FirstFmriDataOfTwo(lines, i + 1)

RECURSIVE FirstFmriData(_, _)
\* The first line from line i on that starts with 'fmri_data ', read as
\* '_'.join(line.split(' ')[1: 4]); "" when there is none.
FirstFmriData(lines, i) ==
    IF i > Len(lines) THEN ""
    ELSE IF StartsWith(lines[i], "fmri_data ")
    THEN Join(ListSlice(Split(lines[i], " "), 1, 4), "_")
    ELSE FirstFmriData(lines, i + 1)

\* get_spark_filename(pipe_file), on the lines of the file
get_spark_filename(lines) == FirstFmriData(lines, 1)

\* Whether a path lies below a directory.
Below(p, d) == StartsWith(p, d \o "/")

\* A file system: the paths of its files and of its directories, and
\* whether a call on it has raised an OSError that nothing catches.
FileSystem(fs, ds) == [files |-> fs, dirs |-> ds, failed |-> FALSE]
Failed(fs) == [fs EXCEPT !.failed = TRUE]

\* The names of the files of a directory and the paths of its
\* subdirectories, as os.walk lists them when it enters the directory.
FileNames(fs, root) == {basename(f) : f \in {g \in fs.files : dirname(g) = root}}
SubDirs(fs, root) == {d \in fs.dirs : dirname(d) = root}

\* re.search('.+' + fragment + '.+', name): the fragment with at least one
\* character before it and one after it, neither a newline.  The fragments
\* here hold letters, digits, underscores and newlines, which the pattern
\* matches literally.
re_search(fragment, name) ==
    \E i \in 2..Len(name) :
        /\ i + Len(fragment) <= Len(name)
        /\ SubSeq(name, i, i + Len(fragment) - 1) = fragment
        /\ Char(name, i - 1) # "\n"
        /\ Char(name, i + Len(fragment)) # "\n"

RECURSIVE SubFrom(_, _, _, _)
\* name[i:] with every occurrence of pat replaced by rep, leftmost first.
SubFrom(name, pat, rep, i) ==
    LET occ == {j \in i..(Len(name) - Len(pat) + 1) :
                    SubSeq(name, j, j + Len(pat) - 1) = pat}
        j == CHOOSE k \in occ : \A l \in occ : k <= l
    IN  IF occ = {} THEN SubSeq(name, i, Len(name))
        ELSE SubSeq(name, i, j - 1) \o rep \o SubFrom(name, pat, rep, j + Len(pat))

\* re.sub(pat, rep, name) for a literal pattern
re_sub(pat, rep, name) == SubFrom(name, pat, rep, 1)

\* The file system with the directory src, and all below it, at dst.
RenameTree(fs, src, dst) ==
    LET to(p) == IF p = src \/ Below(p, src) THEN dst \o SliceFrom(p, Len(src))
                 ELSE p
    IN  [fs EXCEPT !.files = {to(f) : f \in fs.files},
                   !.dirs = {to(d) : d \in fs.dirs}]

\* shutil.move(src, dst) of a directory: into dst when dst is a directory,
\* an error when the place is taken.
move_dir(fs, src, dst) ==
    LET real_dst == IF dst \in fs.dirs THEN PathJoin(<<dst, basename(src)>>) ELSE dst
    IN  IF src = dst THEN fs
        ELSE IF real_dst \in fs.files \cup fs.dirs THEN Failed(fs)
        ELSE RenameTree(fs, src, real_dst)

\* rename_outputs, the files of one directory: every file whose name the
\* search finds is moved to its new name; a file that is there already is
\* replaced, a directory of that name takes the file in.
rename_files(fs, root, spark_filename, bids_filename) ==
    LET matching == {n \in FileNames(fs, root) : re_search(spark_filename, n)}
        new_name(n) == re_sub("_" \o spark_filename, "_" \o bids_filename, n)
        dst(n) == PathJoin(<<root, new_name(n)>>)
        real_dst(n) == IF dst(n) \in fs.dirs THEN PathJoin(<<dst(n), n>>) ELSE dst(n)
    IN  IF \E n \in matching :
              dst(n) \in fs.dirs /\ real_dst(n) \in fs.files \cup fs.dirs
        THEN Failed(fs)
        ELSE [fs EXCEPT !.files =
                 (fs.files \ {PathJoin(<<root, n>>) : n \in matching})
                 \cup {real_dst(n) : n \in matching}]

RECURSIVE rename_walk(_, _, _, _)
RECURSIVE rename_walk_dirs(_, _, _, _)
\* rename_outputs, the loop over os.walk(top): the walk is top-down, so a
\* directory is listed, its files are renamed and the directory itself is
\* moved before the walk goes on to the subdirectories it has listed, by
\* the paths they had; a path that is no longer there is passed over.
rename_walk(top, fs, spark_filename, bids_filename) ==
    IF fs.failed \/ top \notin fs.dirs THEN fs
    ELSE LET rename_root ==
                 \E n \in FileNames(fs, top) : re_search(spark_filename, n)
             fs1 == rename_files(fs, top, spark_filename, bids_filename)
             fs2 == IF ~fs1.failed /\ rename_root /\ basename(top) = spark_filename
                    THEN move_dir(fs1, top,
                                  PathJoin(<<dirname(top), bids_filename>>))
                    ELSE fs1
         IN  rename_walk_dirs(SubDirs(fs, top), fs2, spark_filename, bids_filename)

\* The walk through the listed subdirectories, one after the other.
rename_walk_dirs(ds, fs, spark_filename, bids_filename) ==
    IF ds = {} THEN fs
    ELSE LET d == CHOOSE e \in ds : TRUE
         IN  rename_walk_dirs(ds \ {d},
                              rename_walk(d, fs, spark_filename, bids_filename),
                              spark_filename, bids_filename)

\* os.rmdir(d): an error unless d is an empty directory.
rmdir(fs, d) ==
    IF fs.failed THEN fs
    ELSE IF d \notin fs.dirs \/ \E p \in fs.files \cup fs.dirs : dirname(p) = d
    THEN Failed(fs)
    ELSE [fs EXCEPT !.dirs = fs.dirs \ {d}]

RECURSIVE rmdirs(_, _)
rmdirs(fs, ds) ==
    IF ds = {} THEN fs
    ELSE LET d == CHOOSE e \in ds : TRUE IN rmdirs(rmdir(fs, d), ds \ {d})

\* move_outputs, the body of the loop for one directory, with the files and
\* subdirectories os.walk listed when it entered it: the directory of the
\* same relative path below out_dir is made if nothing is there, the files
\* are renamed into it and the subdirectories are removed.
move_dir_body(fs, root, names, subs, out_dir, src_dir) ==
    LET dst_dir == IF root = src_dir THEN out_dir
                   ELSE out_dir \o SliceFrom(root, Len(src_dir))
        fs1 == IF dst_dir \in fs.dirs \cup fs.files THEN fs
               ELSE [fs EXCEPT !.dirs = fs.dirs \cup Ancestors(dst_dir)]
        src(n) == PathJoin(<<root, n>>)
        dst(n) == PathJoin(<<dst_dir, n>>)
    IN  IF fs.failed THEN fs
        ELSE IF \E n \in names : \/ src(n) \notin fs1.files
                                 \/ dst_dir \notin fs1.dirs
                                 \/ dst(n) \in fs1.dirs
        THEN Failed(fs1)
        ELSE rmdirs([fs1 EXCEPT !.files = (fs1.files \ {src(n) : n \in names})
                                          \cup {dst(n) : n \in names}],
                    subs)

RECURSIVE move_walk(_, _, _, _)
RECURSIVE move_walk_dirs(_, _, _, _)
\* move_outputs, the loop over os.walk(src_dir, topdown=False): a directory
\* is listed when the walk enters it, and its body runs after the walk has
\* been through the subdirectories listed.
move_walk(root, fs, out_dir, src_dir) ==
    IF fs.failed \/ root \notin fs.dirs THEN fs
    ELSE move_dir_body(move_walk_dirs(SubDirs(fs, root), fs, out_dir, src_dir),
                       root, FileNames(fs, root), SubDirs(fs, root),
                       out_dir, src_dir)

move_walk_dirs(ds, fs, out_dir, src_dir) ==
    IF ds = {} THEN fs
    ELSE LET d == CHOOSE e \in ds : TRUE
         IN  move_walk_dirs(ds \ {d}, move_walk(d, fs, out_dir, src_dir),
                            out_dir, src_dir)

\* rename_outputs(out_dir, pipe_file) on a file system, the options file
\* holding the lines given.
rename_outputs(fs, out_dir, pipe_file, lines) ==
    rename_walk(PathJoin(<<out_dir, get_bids_filename(pipe_file)>>), fs,
                get_spark_filename(lines), get_bids_filename(pipe_file))

\* A moving step that leaves the directory of the pipeline files where it is.
move_outputs_but_pipelines(fs, out_dir, pipe_file) ==
    LET src_dir == PathJoin(<<out_dir, get_bids_filename(pipe_file)>>)
        r == rmdir(move_walk(src_dir, fs, out_dir, src_dir), src_dir)
        kept == {f \in fs.files : dirname(f) = dirname(pipe_file)}
    IN  [r EXCEPT !.files = (@ \ {PathJoin(<<out_dir, "pipelines", basename(f)>>) :
                                      f \in kept}) \cup kept,
                  !.dirs = @ \cup Ancestors(dirname(pipe_file))]

\* move_outputs(out_dir, pipe_file) on a file system
move_outputs(fs, out_dir, pipe_file) ==
    LET src_dir == PathJoin(<<out_dir, get_bids_filename(pipe_file)>>)
    IN  rmdir(move_walk(src_dir, fs, out_dir, src_dir), src_dir)

---------------------------------------------------------------------------
(* The command lines and file systems an invocation starts from *)

Modes == {"--SETUP", "--RUN", "--WRAP-UP"}

\* The argparse defaults, with the required arguments of a plain call.
DefaultArgs ==
    [modes |-> {}, exe |-> <<>>, fmri |-> "sub-1_bold.nii", out_dir |-> "o",
     mask |-> "/m.nii", nb_resamplings |-> 100, network_scales |-> <<10, 2, 30>>,
     nb_iterations |-> 20, p_value |-> Float(5), resampling_method |-> "CBB",
     block_window_length |-> <<10, 1, 30>>, dict_init_method |-> "GivenMatrix",
     sparse_coding_method |-> "Thresholding", preserve_dc_atom |-> FALSE,
     verbose |-> FALSE, stage |-> "A", jobs_patterns |-> <<>>,
     jobs_indices |-> <<>>, move_outputs |-> FALSE]

\* --exe as the user gives it: not at all, or once.
ExeArgs == {<<>>, <<"/x">>}

\* The executables that may exist: the default one and the user's.
ExeCandidates(x) == {get_default_exe} \cup {abspath(x[i]) : i \in 1..Len(x)}

\* fMRI files, each with the name Python derives from it by
\* filename[:-len(filename.split('_')[-1][4:])].
FmriCases ==
    {[fmri |-> "sub-1_bold.nii", base |-> "sub-1_bold"],
     [fmri |-> "/d/sub-1_ses-2_run-3_bold.nii", base |-> "sub-1_ses-2_run-3_bold"],
     [fmri |-> "/d/sub-1_task-r_sbref.nii", base |-> "sub-1_task-r_sbre"],
     [fmri |-> "/d/x_bold.nii", base |-> "x_bold"],
     [fmri |-> "/d/sub-1", base |-> "sub-"]}

Masks == {"/m.nii", "m.mnc", "/m.txt", "/m.nii.gz"}

\* The directory of an analysis, of its pipelines, and its two pipeline
\* files, for --out-dir o in the working directory.
AnalysisDir(base) == "/w/o/" \o base
PipelinesDir(base) == AnalysisDir(base) \o "/pipelines"
OptPath(base) == PipelinesDir(base) \o "/" \o base \o ".opt"
MatPath(base) == PipelinesDir(base) \o "/" \o base \o ".mat"

\* The numeric arguments of setup: a valid choice, and choices that break
\* one range check or two.
ValidNumbers ==
    [nr |-> 2, ns |-> <<1, 1, 2>>, ni |-> 2, p |-> Float(5), bw |-> <<1, 1, 1>>]

SomeNumbers ==
    {ValidNumbers,
     [ValidNumbers EXCEPT !.nr = 1],
     [ValidNumbers EXCEPT !.ns = <<0, 1, 1>>],
     [ValidNumbers EXCEPT !.ns = <<2, 1, 1>>],
     [ValidNumbers EXCEPT !.ni = 1],
     [ValidNumbers EXCEPT !.p = Float(-1)],
     [ValidNumbers EXCEPT !.p = Float(101)],
     [ValidNumbers EXCEPT !.bw = <<1, 0, 1>>],
     [ValidNumbers EXCEPT !.bw = <<2, 1, 1>>],
     [ValidNumbers EXCEPT !.ni = 1, !.bw = <<2, 1, 1>>]}

\* Every [begin, step, end] with elements up to MaxScale.
MaxScale == 2
Triples == [1..3 -> 0..MaxScale]

PValues == {Float(-1), Float(0), Float(5), Float(100), Float(101), NaN}

AllNumbers ==
    [nr : {1, 2}, ns : Triples, ni : {1, 2}, p : PValues, bw : Triples]

\* fMRI filenames of up to MaxTokens tokens.
Tokens == {"sub-1", "sub-x. y", "ses-2", "run-3", "echo-1", "bold.nii"}

GeneratedFmri ==
    {"/d/" \o Join(ts, "_") :
        ts \in UNION {[1..n -> Tokens] : n \in 1..MaxTokens}}

\* --jobs-indices and --jobs-patterns
IndexLists == UNION {[1..n -> 0..MaxIndex] : n \in 0..MaxJobs}
PatternLists == {<<>>, <<"job">>, <<"a b", "c">>}

\* Options files found by wrap-up: one that setup wrote, one with a short
\* fmri_data line, one without the line.
OptTexts ==
    {<<"pipe_file /w/o/b/pipelines/b.mat\n",
       "fmri_data sub_1 ses_cspark_1 run_cspark_1 /d/sub-1_bold.nii\n",
       "out_dir /w/o/b\n">>,
     <<"fmri_data internalTag\n">>,
     <<"pipe_file /w/o/b/pipelines/b.mat\n">>}

InitControl ==
    /\ is_bids = "unasked"
    /\ pc = "spark"
    /\ oargs = NoArgs
    /\ called = <<>>
    /\ outcome = "running"
    /\ stderr = <<>>
    /\ stdout = <<>>
    /\ shell = <<>>

\* A --SETUP call.  every: all the files it names exist; otherwise any of
\* them may be missing.  made: how much of the analysis directory a former
\* call has left (nothing, the directory, its pipelines directory too).
InitSetup(cases, masks, numbers, every, mades) ==
    \E c \in cases, x \in ExeArgs, m \in masks, n \in numbers, made \in mades :
    \E xs \in SUBSET ExeCandidates(x), present \in SUBSET {"fmri", "mask"} :
        /\ every => xs = ExeCandidates(x) /\ present = {"fmri", "mask"}
        /\ argv = [DefaultArgs EXCEPT
                      !.modes = {"--SETUP"}, !.exe = x, !.fmri = c.fmri,
                      !.mask = m, !.nb_resamplings = n.nr,
                      !.network_scales = n.ns, !.nb_iterations = n.ni,
                      !.p_value = n.p, !.block_window_length = n.bw]
        /\ files = xs \cup (IF "fmri" \in present THEN {abspath(c.fmri)} ELSE {})
                      \cup (IF "mask" \in present THEN {abspath(m)} ELSE {})
        /\ dirs = {"/w"}
                  \cup (IF made >= 1 THEN {"/w/o", AnalysisDir(c.base)} ELSE {})
                  \cup (IF made >= 2 THEN {PipelinesDir(c.base)} ELSE {})
        /\ opt_text = <<>>

\* A --RUN call: the executable and the pipeline file exist or not.
InitRun ==
    \E c \in FmriCases, x \in ExeArgs, mat \in BOOLEAN, ji \in IndexLists,
       jp \in PatternLists, st \in {"A", "C"} :
    \E xs \in SUBSET ExeCandidates(x) :
        /\ argv = [DefaultArgs EXCEPT
                      !.modes = {"--RUN"}, !.exe = x, !.fmri = c.fmri,
                      !.stage = st, !.jobs_indices = ji, !.jobs_patterns = jp]
        /\ files = xs \cup (IF mat THEN {MatPath(c.base), OptPath(c.base)} ELSE {})
        /\ dirs = {"/w"}
                  \cup (IF mat THEN {"/w/o", AnalysisDir(c.base), PipelinesDir(c.base)}
                        ELSE {})
        /\ opt_text = <<>>

\* A --WRAP-UP call: the options file exists or not.
InitWrapup ==
    \E c \in FmriCases, opt \in BOOLEAN, t \in OptTexts, mv \in BOOLEAN :
        /\ argv = [DefaultArgs EXCEPT
                      !.modes = {"--WRAP-UP"}, !.fmri = c.fmri,
                      !.move_outputs = mv]
        /\ files = IF opt THEN {MatPath(c.base), OptPath(c.base)} ELSE {}
        /\ dirs = {"/w"}
                  \cup (IF opt THEN {"/w/o", AnalysisDir(c.base), PipelinesDir(c.base)}
                        ELSE {})
        /\ opt_text = IF opt THEN t ELSE <<>>

\* The analysis whose outputs wrap-up is given: its fMRI file, the name of
\* its directory and the directory.
TreeFmri == "sub-1_bold.nii"
TreeBase == "sub-1_bold"
TreeDir == AnalysisDir(TreeBase)

\* Options files of that analysis, each with the fragment the executable
\* has named its outputs with: the file setup writes, a file with a short
\* fmri_data line, and that file without a newline at its end.
OptCases ==
    {[text |-> <<"pipe_file /w/o/sub-1_bold/pipelines/sub-1_bold.mat\n",
                 "fmri_data sub_1 ses_cspark_1 run_cspark_1 /w/sub-1_bold.nii\n",
                 "out_dir /w/o/sub-1_bold\n">>,
      tag |-> "sub_1_ses_cspark_1_run_cspark_1"],
     [text |-> <<"fmri_data internalTag\n">>, tag |-> "internalTag"],
     [text |-> <<"fmri_data internalTag">>, tag |-> "internalTag"]}

\* What the executable may have left in the directory of the analysis,
\* piece by piece, each piece with its files and its directories: outputs
\* with the fragment in the middle of their name, at its start, at its end
\* and with no underscore before it, at the top, in a directory named after
\* the fragment and below it, and a directory named after the analysis.
TreePieces(tag) ==
    {[files |-> {TreeDir \o "/foo_" \o tag \o "_bar.mat"}, dirs |-> {}],
     [files |-> {TreeDir \o "/" \o tag \o "/foo_" \o tag \o "_bar.mat"},
      dirs |-> {TreeDir \o "/" \o tag}],
     [files |-> {TreeDir \o "/" \o tag \o "/in/deep_" \o tag \o "_z.mat"},
      dirs |-> {TreeDir \o "/" \o tag, TreeDir \o "/" \o tag \o "/in"}],
     [files |-> {TreeDir \o "/" \o tag \o "_x.mat"}, dirs |-> {}],
     [files |-> {TreeDir \o "/x_" \o tag}, dirs |-> {}],
     [files |-> {TreeDir \o "/a" \o tag \o "b.mat"}, dirs |-> {}],
     [files |-> {TreeDir \o "/" \o TreeBase \o "/k.txt"},
      dirs |-> {TreeDir \o "/" \o TreeBase}],
     [files |-> {TreeDir \o "/d/plain.txt"}, dirs |-> {TreeDir \o "/d"}]}

\* A --WRAP-UP call on such a directory.
InitTree ==
    /\ InitControl
    /\ \E c \in OptCases, mv \in BOOLEAN :
       \E pieces \in SUBSET TreePieces(c.tag) :
        \* os.walk lists a directory in no fixed order, which shows only
        \* when a renamed directory lands in a directory that is there.
        /\ LET ds == UNION {p.dirs : p \in pieces}
           IN  ~(TreeDir \o "/" \o c.tag \in ds /\ TreeDir \o "/" \o TreeBase \in ds)
        /\ argv = [DefaultArgs EXCEPT
                      !.modes = {"--WRAP-UP"}, !.fmri = TreeFmri,
                      !.move_outputs = mv]
        /\ files = {MatPath(TreeBase), OptPath(TreeBase)}
                   \cup UNION {p.files : p \in pieces}
        /\ dirs = {"/w", "/w/o", TreeDir, PipelinesDir(TreeBase)}
                  \cup UNION {p.dirs : p \in pieces}
        /\ opt_text = c.text

\* A call with no mode flag, or with several.
InitOther ==
    \E ms \in SUBSET Modes, x \in ExeArgs, xs \in SUBSET {get_default_exe} :
        /\ Cardinality(ms) # 1
        /\ argv = [DefaultArgs EXCEPT !.modes = ms, !.exe = x]
        /\ files = xs
        /\ dirs = {"/w"}
        /\ opt_text = <<>>

Init ==
    /\ InitControl
    /\ \/ InitSetup(FmriCases, Masks, SomeNumbers, FALSE, 0..2)
       \/ InitRun
       \/ InitWrapup
       \/ InitOther

\* Setup calls whose files all exist, over every choice of the numbers.
InitRanges ==
    /\ InitControl
    /\ InitSetup({[fmri |-> "sub-1_bold.nii", base |-> "sub-1_bold"]},
                 {"/m.nii"}, AllNumbers, TRUE, {0})

\* Setup calls whose files all exist, over the generated fMRI filenames.
InitFmri ==
    /\ InitControl
    /\ InitSetup({[fmri |-> f, base |-> ""] : f \in GeneratedFmri},
                 {"/m.nii"}, {ValidNumbers}, TRUE, {0})

---------------------------------------------------------------------------
(* The steps of an invocation *)

\* sys_exit(0), sys_exit(1) after printing msgs, or an exception that
\* nothing catches.
Ends(how, msgs) ==
    /\ pc' = "exited"
    /\ outcome' = how
    /\ stderr' = stderr \o msgs

Goes(to, msgs) ==
    /\ pc' = to
    /\ outcome' = outcome
    /\ stderr' = stderr \o msgs

\* spark(iargs)
Spark ==
    /\ pc = "spark"
    /\ LET h == spark_select(spark_iargs(argv).modes)
       IN  /\ called' = IF h \in Handlers THEN Append(called, h) ELSE called
           /\ stdout' = IF h = "help" THEN Append(stdout, "usage") ELSE stdout
           /\ IF h = "mutex"
              THEN Ends("exit1", <<"--SETUP, --RUN and --WRAP-UP are mutually exclusive">>)
              ELSE IF h = "help" THEN Ends("exit0", <<>>)
              ELSE Goes(h, <<>>)
    /\ UNCHANGED <<argv, files, dirs, opt_text, is_bids, oargs, shell>>

\* setup: check_iargs(iargs)
SetupCheckIargs ==
    /\ pc = "setup"
    /\ \E v \in BidsVerdicts(abspath(argv.fmri)) :
        LET ia == spark_iargs(argv)
            a  == setup_abspath(ia)
            r  == setup_check_iargs(ia, files, v)
            asked == /\ setup_check_iargs_integrity(a, files) = ""
                     /\ setup_fmri_asks(a.fmri)
        IN  /\ is_bids' = IF asked THEN v ELSE is_bids
            /\ oargs' = r.oargs
            /\ IF r.status = "ok" THEN Goes("setup_pipes", <<>>)
               ELSE Ends(r.status, <<r.diag>>)
    /\ UNCHANGED <<argv, files, dirs, opt_text, called, stdout, shell>>

\* setup_pipes: the two make_dirs calls
SetupMakeDirs ==
    /\ pc = "setup_pipes"
    /\ \E f1, f2 \in BOOLEAN :
        LET r1 == make_dirs(setup_out_dir(oargs), dirs, files, f1)
            r2 == make_dirs(setup_pipes_dir(oargs), r1.dirs, files, f2)
        IN  IF r1.exit
            THEN dirs' = r1.dirs /\ Ends("exit1", r1.printed)
            ELSE /\ dirs' = r2.dirs
                 /\ IF r2.exit THEN Ends("exit1", r1.printed \o r2.printed)
                    ELSE Goes("setup_write", r1.printed \o r2.printed)
    /\ UNCHANGED <<argv, files, opt_text, is_bids, oargs, called, stdout, shell>>

\* setup_pipes: the options file is opened, written and looked for.  No
\* handler catches the OSError of an open() or a write() that fails.
SetupWriteOptions ==
    /\ pc = "setup_write"
    /\ \E fault \in BOOLEAN :
        IF fault
        THEN /\ UNCHANGED <<files, opt_text>>
             /\ Ends("traceback", <<"OSError">>)
        ELSE /\ files' = files \cup {setup_pipe_opt(oargs)}
             /\ opt_text' = setup_opt_lines(argv, oargs)
             /\ IF ~isfile(files', setup_pipe_opt(oargs))
                THEN Ends("exit1", <<"Failed to create/edit the SPARK pipeline options file">>)
                ELSE Goes("setup_exec", <<>>)
    /\ UNCHANGED <<argv, dirs, is_bids, oargs, called, stdout, shell>>

\* setup_pipes: the executable is run on the options file; setup exits.
SetupExecutable ==
    /\ pc = "setup_exec"
    /\ \E rcs \in RunStatuses(setup_cmd(oargs), oargs.exe) :
        LET p == sp_run(setup_cmd(oargs), setup_pipes_dir(oargs), rcs)
        IN  /\ shell' = shell \o p
            /\ IF returncode(p) # 0
               THEN Ends("exit1", <<"The process returned a non-zero exit status">>)
               ELSE Ends("exit0", <<>>)
    /\ UNCHANGED <<argv, files, dirs, opt_text, is_bids, oargs, called, stdout>>

\* run: check_iargs(iargs)
RunCheckIargs ==
    /\ pc = "run"
    /\ LET r == run_check_iargs(spark_iargs(argv), files)
       IN  /\ oargs' = r.oargs
           /\ IF r.status = "ok" THEN Goes("run_pipe", <<>>)
              ELSE Ends(r.status, <<r.diag>>)
    /\ UNCHANGED <<argv, files, dirs, opt_text, is_bids, called, stdout, shell>>

\* run_pipe(iargs); run exits.
RunPipe ==
    /\ pc = "run_pipe"
    /\ \E rcs \in RunStatuses(run_cmd(argv, oargs), oargs.exe) :
        LET p == sp_run(run_cmd(argv, oargs), oargs.out_dir, rcs)
        IN  /\ shell' = shell \o p
            /\ IF returncode(p) # 0
               THEN Ends("exit1", <<"The process returned a non-zero exit status">>)
               ELSE Ends("exit0", <<>>)
    /\ UNCHANGED <<argv, files, dirs, opt_text, is_bids, oargs, called, stdout>>

\* wrapup: check_iargs(iargs)
WrapupCheckIargs ==
    /\ pc = "wrapup"
    /\ LET r == wrapup_check_iargs(spark_iargs(argv), files)
       IN  /\ oargs' = r.oargs
           /\ IF r.status = "ok" THEN Goes("rename_outputs", <<>>)
              ELSE Ends(r.status, <<r.diag>>)
    /\ UNCHANGED <<argv, files, dirs, opt_text, is_bids, called, stdout, shell>>

\* A renaming step that walks the tree with whatever get_spark_filename
\* has found, and looks at what it has found after the walk.
RenameOutputsWalkFirst(faults) ==
    /\ pc = "rename_outputs"
    /\ \E fault \in faults :
        LET r == rename_outputs(FileSystem(files, dirs), oargs.out_dir,
                                oargs.pipe_file, opt_text)
        IN  IF fault
            THEN UNCHANGED <<files, dirs>> /\ Ends("traceback", <<"OSError">>)
            ELSE /\ files' = r.files
                 /\ dirs' = r.dirs
                 /\ IF get_spark_filename(opt_text) = ""
                    THEN Ends("exit1", <<"Failed to read option fmri_data from the pipeline file">>)
                    ELSE IF r.failed THEN Ends("traceback", <<"OSError">>)
                    ELSE IF argv.move_outputs THEN Goes("move_outputs", <<>>)
                    ELSE Ends("exit0", <<>>)
    /\ UNCHANGED <<argv, opt_text, is_bids, oargs, called, stdout, shell>>

\* rename_outputs(out_dir, pipe_file).  The options file is opened and
\* read, then the tree is walked and files are moved; no handler catches
\* the OSError of a call that fails.  faults: whether a call may fail for a
\* reason that is not in the tree (a permission, a full disk).
RenameOutputsWith(faults) ==
    /\ pc = "rename_outputs"
    /\ \E open_fault, walk_fault \in faults :
        LET r == rename_outputs(FileSystem(files, dirs), oargs.out_dir,
                                oargs.pipe_file, opt_text)
        IN  IF open_fault
            THEN UNCHANGED <<files, dirs>> /\ Ends("traceback", <<"OSError">>)
            ELSE IF get_spark_filename(opt_text) = ""
            THEN /\ UNCHANGED <<files, dirs>>
                 /\ Ends("exit1", <<"Failed to read option fmri_data from the pipeline file">>)
            ELSE IF walk_fault
            THEN UNCHANGED <<files, dirs>> /\ Ends("traceback", <<"OSError">>)
            ELSE /\ files' = r.files
                 /\ dirs' = r.dirs
                 /\ IF r.failed THEN Ends("traceback", <<"OSError">>)
                    ELSE IF argv.move_outputs THEN Goes("move_outputs", <<>>)
                    ELSE Ends("exit0", <<>>)
    /\ UNCHANGED <<argv, opt_text, is_bids, oargs, called, stdout, shell>>

RenameOutputs == RenameOutputsWith(BOOLEAN)

\* move_outputs(out_dir, pipe_file); wrapup exits.  No handler catches the
\* OSError of a makedirs, rename or rmdir that fails.
MoveOutputsWith(faults) ==
    /\ pc = "move_outputs"
    /\ \E fault \in faults :
        LET r == move_outputs(FileSystem(files, dirs), oargs.out_dir,
                              oargs.pipe_file)
        IN  IF fault
            THEN UNCHANGED <<files, dirs>> /\ Ends("traceback", <<"OSError">>)
            ELSE /\ files' = r.files
                 /\ dirs' = r.dirs
                 /\ IF r.failed THEN Ends("traceback", <<"OSError">>)
                    ELSE Ends("exit0", <<>>)
    /\ UNCHANGED <<argv, opt_text, is_bids, oargs, called, stdout, shell>>

MoveOutputs == MoveOutputsWith(BOOLEAN)

\* The two steps when calls fail for no reason but the shape of the tree.
RenameOutputsTree == RenameOutputsWith({FALSE})
MoveOutputsTree == MoveOutputsWith({FALSE})

NextSetup ==
    \/ Spark
    \/ SetupCheckIargs
    \/ SetupMakeDirs
    \/ SetupWriteOptions
    \/ SetupExecutable

Next ==
    \/ NextSetup
    \/ RunCheckIargs
    \/ RunPipe
    \/ WrapupCheckIargs
    \/ RenameOutputs
    \/ MoveOutputs

Spec == Init /\ [][Next]_vars

SpecRanges == InitRanges /\ [][NextSetup]_vars

SpecFmri == InitFmri /\ [][NextSetup]_vars

NextTree ==
    \/ Spark
    \/ WrapupCheckIargs
    \/ RenameOutputsTree
    \/ MoveOutputsTree

SpecTree == InitTree /\ [][NextTree]_vars

---------------------------------------------------------------------------
(* What the command line asks for, read off argv and the file system *)

\* The handler a mode flag stands for.
HandlerOf(flag) ==
    IF flag = "--SETUP" THEN "setup" ELSE IF flag = "--RUN" THEN "run" ELSE "wrapup"

\* The paths the checks look at.
ExePath == IF argv.exe = <<>> THEN get_default_exe
           ELSE abspath(argv.exe[Len(argv.exe)])
FmriPath == abspath(argv.fmri)
MaskPath == abspath(argv.mask)
Base == IF \E c \in FmriCases : c.fmri = argv.fmri
        THEN (CHOOSE c \in FmriCases : c.fmri = argv.fmri).base ELSE ""

SetupMissing == ExePath \notin files \/ FmriPath \notin files \/ MaskPath \notin files
RunMissing == ExePath \notin files \/ MatPath(Base) \notin files
WrapupMissing == OptPath(Base) \notin files

\* The ranges of setup's numbers.
TripleOK(t) == t[1] >= 1 /\ t[2] >= 1 /\ t[3] >= 1 /\ t[1] <= t[3]
PValueOK(p) == ~p.nan /\ 0 <= p.hundredths /\ p.hundredths <= 100
RangesOK ==
    /\ argv.nb_resamplings >= 2
    /\ argv.nb_iterations >= 2
    /\ PValueOK(argv.p_value)
    /\ TripleOK(argv.network_scales)
    /\ TripleOK(argv.block_window_length)

RunIndexBad == \E i \in 1..Len(argv.jobs_indices) : argv.jobs_indices[i] < 1

ExistenceDiags ==
    {"--exe: Invalid or nonexistent file", "--fmri: Invalid or nonexistent file",
     "--mask: Invalid or nonexistent file", "Pipeline file not found"}
FormatDiag == "--mask: File is not MINC (.mnc) or NIfTI (.nii)"

\* The step ends the invocation with one diagnostic and exit code 1, the
\* executable not run.
Rejected ==
    pc' = "exited" /\ outcome' = "exit1" /\ shell' = <<>> /\ Len(stderr') = 1

\* The runs of the executable among the commands the shell has run.
ExeRuns == SelectSeq(shell, LAMBDA r : r.words[1] = oargs.exe)

---------------------------------------------------------------------------
(* Properties *)

\* C1: the dispatcher selects at most one handler.  With more than one of
\* --SETUP, --RUN, --WRAP-UP it exits with code 1 and calls no handler; with
\* exactly one it calls the matching handler and no other; with none it
\* prints the help and exits with code 0.
C1_DispatchOne ==
    pc # "spark" =>
        /\ Cardinality(argv.modes) > 1 =>
              called = <<>> /\ pc = "exited" /\ outcome = "exit1" /\ stdout = <<>>
        /\ Cardinality(argv.modes) = 1 =>
              \E m \in argv.modes : called = <<HandlerOf(m)>>
        /\ argv.modes = {} =>
              /\ called = <<>> /\ pc = "exited" /\ outcome = "exit0"
              /\ stdout = <<"usage">>

C1_Witness ==
    /\ pc = "exited" /\ argv.modes = {"--SETUP", "--RUN"}
    /\ called = <<>> /\ outcome = "exit1"

\* C2: every failure ends the invocation with a diagnostic and exit code 1;
\* none surfaces as an uncaught exception, the failures of the file system
\* in setup_pipes, rename_outputs and move_outputs included.
C2_NoUncaughtException ==
    pc = "exited" =>
        /\ outcome \in {"exit0", "exit1"}
        /\ outcome = "exit1" => stderr # <<>>

\* C3: setup and run invoke the executable once; the invocation exits with
\* code 1 if the executable returns a non-zero status and with code 0 if it
\* returns 0.
C3_ExecutableDecides ==
    (pc = "exited" /\ shell # <<>>) =>
        /\ Len(ExeRuns) = 1
        /\ ExeRuns[1].rc = 0 => outcome = "exit0"
        /\ ExeRuns[1].rc # 0 => outcome = "exit1"

\* C4: existence checks reject with exit code 1 before the executable is
\* invoked: setup when the executable, the fMRI or the mask is not a file,
\* run when the executable or <out_dir>/<base>/pipelines/<base>.mat is not
\* a file, wrap-up when <out_dir>/<base>/pipelines/<base>.opt is not a file.
C4_ExistenceChecks ==
    [][/\ (pc = "setup" /\ SetupMissing) => Rejected
       /\ (pc = "run" /\ RunMissing) => Rejected
       /\ (pc = "wrapup" /\ WrapupMissing) => Rejected]_vars

C4_Witness ==
    /\ pc = "exited" /\ called = <<"run">>
    /\ ExePath \in files /\ MatPath(Base) \notin files
    /\ outcome = "exit1" /\ shell = <<>>

\* C5: validation is fail-fast and ordered.  A validation that fails reports
\* exactly one diagnostic, and when the arguments break both an existence
\* check and a range check the diagnostic is the one of the existence check.
C5_ExistenceBeforeRange ==
    [][(pc \in {"setup", "run", "wrapup"} /\ pc' = "exited") =>
          /\ Len(stderr') = 1
          /\ (\/ pc = "setup" /\ SetupMissing /\ ~RangesOK
              \/ pc = "run" /\ RunMissing /\ RunIndexBad)
             => stderr'[1] \in ExistenceDiags]_vars

C5_Witness ==
    /\ pc = "exited" /\ called = <<"setup">>
    /\ ExePath \in files /\ FmriPath \in files /\ MaskPath \notin files
    /\ ~RangesOK
    /\ stderr = <<"--mask: Invalid or nonexistent file">>

\* C6: with every file present and a valid mask, setup's range validation
\* passes if and only if nb_resamplings >= 2, nb_iterations >= 2,
\* 0 <= p_value <= 1, and both triples have every element >= 1 and
\* begin <= end; otherwise setup exits with code 1.
C6_RangesIff ==
    [][(pc = "setup" /\ ~SetupMissing /\ EndsWith(MaskPath, ".nii")) =>
          IF RangesOK THEN is_bids' # "unasked"
          ELSE Rejected /\ is_bids' = "unasked"]_vars

\* C7: run exits with code 1 without invoking the executable whenever
\* --jobs-indices holds a value smaller than 1, also when --jobs-patterns is
\* given; a list whose values are all >= 1 passes the check.
C7_IndicesChecked ==
    (called = <<"run">> /\ pc # "run") =>
        /\ RunIndexBad => pc = "exited" /\ outcome = "exit1" /\ shell = <<>>
        /\ (~RunIndexBad /\ ~RunMissing) => pc = "run_pipe" \/ shell # <<>>

C7_Witness ==
    /\ called = <<"run">> /\ pc = "exited" /\ ~RunMissing
    /\ argv.jobs_patterns # <<>> /\ argv.jobs_indices = <<1, 0>>
    /\ outcome = "exit1" /\ shell = <<>>

\* C8: given an existing mask file, setup's mask check passes when the path
\* ends with .nii or .mnc and fails with the file-format diagnostic and exit
\* code 1 for any other ending.
C8_MaskFormat ==
    [][(pc = "setup" /\ ~SetupMissing) =>
          IF EndsWith(MaskPath, ".nii") \/ EndsWith(MaskPath, ".mnc")
          THEN \A i \in 1..Len(stderr') : stderr'[i] # FormatDiag
          ELSE Rejected /\ stderr' = <<FormatDiag>>]_vars

C8_Witness ==
    /\ pc = "exited" /\ called = <<"setup">> /\ ~SetupMissing
    /\ argv.mask = "/m.txt" /\ outcome = "exit1" /\ stderr = <<FormatDiag>>

\* C9: setup exits with code 1 when the first token of the fMRI filename
\* does not start with sub-, and when the validator rejects the path built
\* from it; no identifier is derived, no options file is written and the
\* executable is not invoked.
C9_InvalidBidsRejected ==
    (/\ called = <<"setup">> /\ pc # "setup"
     /\ \/ ~StartsWith(Split(basename(argv.fmri), "_")[1], "sub-")
        \/ is_bids = "invalid") =>
        /\ pc = "exited" /\ outcome = "exit1"
        /\ oargs.fmri_list = <<>>
        /\ opt_text = <<>> /\ \A f \in files : ~EndsWith(f, ".opt")
        /\ shell = <<>>

C9_Witness ==
    /\ pc = "exited" /\ called = <<"setup">> /\ is_bids = "invalid"
    /\ outcome = "exit1" /\ stderr = <<"Invalid BIDS file">>

\* The tokens of the fMRI filename, and the identifier a token is
\* normalized to.
FmriTokens == Split(basename(argv.fmri), "_")
Normalized(token) ==
    IF token = "ses-2" THEN "ses_2" ELSE IF token = "run-3" THEN "run_3" ELSE token

\* The identifier asked of a filename in which the token with the prefix
\* may stand anywhere: the placeholder exactly when no token has the
\* prefix, otherwise the normalized token.
AnywhereId(id, prefix, placeholder) ==
    IF \A i \in 1..Len(FmriTokens) : ~StartsWith(FmriTokens[i], prefix)
    THEN id = placeholder
    ELSE \E i \in 1..Len(FmriTokens) :
            StartsWith(FmriTokens[i], prefix) /\ id = Normalized(FmriTokens[i])

\* C10 as stated: for every accepted filename the session id is the
\* placeholder exactly when the filename has no ses- token and otherwise the
\* normalized ses- token, and the run id is the placeholder exactly when the
\* filename has no run- token and otherwise the normalized run- token,
\* wherever that token stands.
C10_TokenAnywhere ==
    oargs.fmri_list # <<>> =>
        /\ AnywhereId(oargs.fmri_list[3], "ses-", "ses_cspark_1")
        /\ AnywhereId(oargs.fmri_list[4], "run-", "run_cspark_1")

\* C10 amended: for every accepted filename the session id is the
\* normalized second token when that token starts with ses- and the
\* placeholder otherwise; the run id is the normalized second-to-last token
\* when that token starts with run- and the placeholder otherwise.  A ses-
\* or run- token that stands elsewhere is not looked at.
C10_TokenByPosition ==
    oargs.fmri_list # <<>> =>
        LET n == Len(FmriTokens)
        IN  /\ oargs.fmri_list[3] =
                  IF StartsWith(FmriTokens[2], "ses-")
                  THEN Normalized(FmriTokens[2]) ELSE "ses_cspark_1"
            /\ oargs.fmri_list[4] =
                  IF StartsWith(FmriTokens[n - 1], "run-")
                  THEN Normalized(FmriTokens[n - 1]) ELSE "run_cspark_1"

C10_Witness ==
    /\ argv.fmri = "/d/sub-1_run-3_echo-1_bold.nii"
    /\ oargs.fmri_list # <<>>
    /\ oargs.fmri_list[3] = "ses_cspark_1"
    /\ oargs.fmri_list[4] = "run_cspark_1"

\* The fMRI filename with its file-type suffix (from its first dot on)
\* removed, and the pipeline files the analysis of that name is given.
FmriStem ==
    LET filename == basename(argv.fmri)
        dots == {i \in 1..Len(filename) : Char(filename, i) = "."}
    IN  IF dots = {} THEN filename
        ELSE SubSeq(filename, 1, (CHOOSE i \in dots : \A j \in dots : i <= j) - 1)
StemMat == "/w/o/" \o FmriStem \o "/pipelines/" \o FmriStem \o ".mat"
StemOpt == "/w/o/" \o FmriStem \o "/pipelines/" \o FmriStem \o ".opt"

\* An fMRI path setup can accept.
FmriAcceptable ==
    Len(FmriTokens) >= 2 /\ StartsWith(FmriTokens[1], "sub-")

\* C11: for every fMRI path accepted by setup, the path setup writes under
\* pipe_file, the pipeline file run checks and hands to the executable, and
\* the options file wrap-up reads are <out_dir>/<base>/pipelines/<base>.mat,
\* the same .mat, and the same path with .opt, where <base> is the fMRI
\* filename with its file-type suffix removed.
C11_SameArtifact ==
    FmriAcceptable =>
        /\ (called = <<"setup">> /\ opt_text # <<>>) =>
              /\ opt_text[1] = "pipe_file " \o StemMat \o "\n"
              /\ StemOpt \in files
        /\ (called = <<"run">> /\ pc = "run_pipe") => oargs.pipe_file = StemMat
        /\ (called = <<"wrapup">> /\ pc = "rename_outputs") =>
              oargs.pipe_file = StemOpt

\* The keys of the options file, in the order of its lines.
OptKeys ==
    <<"pipe_file", "fmri_data", "out_dir", "mask", "nb_resamplings",
      "network_scales", "nb_iterations", "p_value", "resampling_method",
      "block_window_length", "dict_init_method", "sparse_coding_method",
      "preserve_dc_atom", "verbose">>

\* A triple as its three elements with single spaces between them.
SpacedTriple(t) == IntStr(t[1]) \o " " \o IntStr(t[2]) \o " " \o IntStr(t[3])

\* C12: the options file setup writes has a fixed key set in a fixed order,
\* each key once; every line is 'key value...' ended by a newline, and the
\* vector parameters are their three elements joined by single spaces.
C12_OptionsFile ==
    (called = <<"setup">> /\ opt_text # <<>>) =>
        /\ Len(opt_text) = Len(OptKeys)
        /\ \A i \in 1..Len(opt_text) :
              /\ StartsWith(opt_text[i], OptKeys[i] \o " ")
              /\ Len(opt_text[i]) > Len(OptKeys[i]) + 2
              /\ {j \in 1..Len(opt_text[i]) : Char(opt_text[i], j) = "\n"}
                     = {Len(opt_text[i])}
        /\ opt_text[6] = "network_scales " \o SpacedTriple(argv.network_scales) \o "\n"
        /\ opt_text[10] = "block_window_length "
                              \o SpacedTriple(argv.block_window_length) \o "\n"

C12_Witness ==
    /\ called = <<"setup">> /\ pc = "exited" /\ outcome = "exit0"
    /\ argv.network_scales = <<1, 2, 2>>
    /\ Len(opt_text) = 14
    /\ opt_text[6] = "network_scales 1 2 2\n"

\* The words every run command starts with.
RunWords == <<ExePath, "run", MatPath(Base), argv.stage>>

\* C17: setup and run each build a single command for the executable,
\* '<exe> setup <options-file>' and '<exe> run <pipeline-file> <stage>
\* <job-filter...>', in which the job filter reaches the executable as
\* arguments of that one command and the shell splits off no further command.
C17_OneQuotedCommand ==
    shell # <<>> =>
        /\ Len(shell) = 1
        /\ called = <<"setup">> => shell[1].words = <<ExePath, "setup", OptPath(Base)>>
        /\ called = <<"run">> =>
              /\ Len(shell[1].words) >= Len(RunWords)
              /\ SubSeq(shell[1].words, 1, Len(RunWords)) = RunWords

\* C18: the job filter of run is empty when neither --jobs-patterns nor
\* --jobs-indices is given, built only from the indices when only
\* --jobs-indices is given, and built only from the patterns whenever
\* --jobs-patterns is given: no index appears in the command then.
C18_JobFilter ==
    (called = <<"run">> /\ shell # <<>>) =>
        LET prefix == ExePath \o " run " \o MatPath(Base) \o " " \o argv.stage \o " "
            n == Len(argv.jobs_indices)
        IN  IF argv.jobs_patterns # <<>>
            THEN Len(shell) = 1 /\ shell[1].words = RunWords \o argv.jobs_patterns
            ELSE IF n > 0
            THEN shell[1].line =
                     prefix \o ConcatRange([i \in 1..n |->
                                   IntStr(argv.jobs_indices[i]) \o ";"], 1, n)
            ELSE shell[1].line = prefix

C18_Witness ==
    /\ called = <<"run">> /\ pc = "exited"
    /\ argv.jobs_patterns = <<"a b", "c">> /\ argv.jobs_indices = <<1, 2>>
    /\ Len(shell) = 1 /\ shell[1].words = RunWords \o <<"a b", "c">>

\* C20: the executable a handler uses is the fixed default when the user
\* gives no --exe and the user's path when the user gives one; the default
\* the dispatcher prepends never overrides it.
C20_UserExeWins ==
    LET expected == IF argv.exe = <<>> THEN "/a/spark_samapp" ELSE "/x"
    IN  /\ oargs.exe # "" => oargs.exe = expected
        /\ shell # <<>> => shell[1].words[1] = expected
        /\ (called # <<>> /\ called[1] \in {"setup", "run"}
            /\ pc \notin {"setup", "run"} /\ expected \notin files) =>
               pc = "exited" /\ outcome = "exit1" /\ shell = <<>>

C20_Witness ==
    /\ argv.exe = <<"/x">> /\ get_default_exe \in files
    /\ pc = "exited" /\ shell # <<>> /\ shell[1].words[1] = "/x"

---------------------------------------------------------------------------
(* Wrap-up on a directory of outputs *)

\* The fragment the renaming step reads, and the name it puts in its place.
Fragment == get_spark_filename(opt_text)
Contains(name, fragment) ==
    \E i \in 1..Len(name) :
        /\ i + Len(fragment) - 1 <= Len(name)
        /\ SubSeq(name, i, i + Len(fragment) - 1) = fragment

\* The renaming step has gone through the tree and returned.
Renamed ==
    /\ pc = "rename_outputs"
    /\ pc' = "move_outputs" \/ (pc' = "exited" /\ outcome' = "exit0")

\* C13: after the renaming step no file of the tree below
\* <out_dir>/<base> has a name that contains the internal fragment,
\* wherever in the name the fragment stood.
C13_NoFragmentLeft ==
    [][Renamed =>
         \A f \in files' : Below(f, TreeDir) => ~Contains(basename(f), Fragment)]_vars

\* A name the renaming step changes when it comes to it.
Renamable(name) ==
    /\ re_search(Fragment, name)
    /\ re_sub("_" \o Fragment, "_" \o TreeBase, name) # name

\* C14: after the renaming step no directory of the tree is named after the
\* internal fragment, and no file is left with the name it had because the
\* directory above it was renamed before the walk came to it.
C14_BottomUp ==
    [][Renamed =>
         /\ \A d \in dirs' : Below(d, TreeDir) => basename(d) # Fragment
         /\ \A f \in files' : Below(f, TreeDir) => ~Renamable(basename(f))]_vars

\* The options file has the line 'fmri_data internalTag', with the newline
\* that ends a line of a text file or as the last line without one.
ShortLine == opt_text[1] \in {"fmri_data internalTag\n", "fmri_data internalTag"}

\* C15: with the options line 'fmri_data internalTag', the renaming step
\* turns foo_internalTag_bar.mat in a directory internalTag into
\* foo_<base>_bar.mat in a directory <base>.
C15_ShortLine ==
    [][(/\ Renamed
        /\ ShortLine
        /\ PathJoin(<<TreeDir, "internalTag", "foo_internalTag_bar.mat">>) \in files)
       => /\ PathJoin(<<TreeDir, TreeBase,
                        "foo_" \o TreeBase \o "_bar.mat">>) \in files'
          /\ PathJoin(<<TreeDir, TreeBase>>) \in dirs'
          /\ PathJoin(<<TreeDir, "internalTag">>) \notin dirs']_vars

\* The place below out_dir of a path below <out_dir>/<base>.
MovedUp(p) == oargs.out_dir \o SliceFrom(p, Len(TreeDir))

\* C16: the moving step of wrap-up returns, with every file that was below
\* <out_dir>/<base> at the same relative path below <out_dir>, and with
\* <out_dir>/<base> and its subdirectories gone, whatever the tree.
C16_MovedUp ==
    [][pc = "move_outputs" =>
         /\ outcome' = "exit0"
         /\ \A f \in files : Below(f, TreeDir) => MovedUp(f) \in files'
         /\ \A d \in dirs' : d # TreeDir /\ ~Below(d, TreeDir)]_vars

---------------------------------------------------------------------------
(* The pipeline files after setup *)

\* The two files setup writes for the analysis of the call, and the place
\* of such a file once the outputs have been moved up.
PipelineFiles == {OptPath(Base), MatPath(Base)}
MovedPipelineFile(p) == PathJoin(<<"/w/o", "pipelines", basename(p)>>)
RunOrWrapup == called \in {<<"run">>, <<"wrapup">>}

\* C19 as stated: no step of run or of wrap-up, with or without
\* --move-outputs, takes a pipeline file from its place.
C19_NeverMoved ==
    [][RunOrWrapup => \A p \in PipelineFiles : p \in files => p \in files']_vars

\* C19: run, and wrap-up up to its moving step, leave the pipeline files
\* and the text of the options file as they are; the moving step of a
\* wrap-up with --move-outputs leaves each file in its place or at
\* <out_dir>/pipelines/, and when it returns both are at
\* <out_dir>/pipelines/, so that a further run or wrap-up of the same call
\* ends with 'Pipeline file not found'.
C19_MovedByMoveOutputs ==
    [][RunOrWrapup =>
         /\ opt_text' = opt_text
         /\ pc # "move_outputs" =>
                \A p \in PipelineFiles : (p \in files') = (p \in files)
         /\ pc = "move_outputs" =>
                \A p \in PipelineFiles :
                    p \in files =>
                        /\ (p \in files') # (MovedPipelineFile(p) \in files')
                        /\ outcome' = "exit0" =>
                              /\ MovedPipelineFile(p) \in files'
                              /\ wrapup_check_iargs(spark_iargs(argv), files').diag
                                     = "Pipeline file not found"
                              /\ run_check_iargs(spark_iargs(argv), files').diag
                                     \in {"--exe: Invalid or nonexistent file",
                                          "Pipeline file not found"}]_vars

\* A wrap-up with --move-outputs has returned and the options file is at
\* <out_dir>/pipelines/.
C19_Witness ==
    /\ pc = "exited" /\ outcome = "exit0" /\ called = <<"wrapup">>
    /\ argv.move_outputs
    /\ OptPath(Base) \notin files
    /\ MovedPipelineFile(OptPath(Base)) \in files

---------------------------------------------------------------------------
(* The identifiers of an analysis *)

\* What setup_fmri derives from the path given: the list it returns.
Derived == setup_fmri(abspath(argv.fmri), "valid").val

\* Setup has written the options file.
Written == called = <<"setup">> /\ opt_text # <<>>

\* C21: the fragment wrap-up reads from the options file setup wrote is
\* <sub_id>_<ses_id>_<run_id> as setup derived them, whatever the path that
\* follows them on the line.
C21_FragmentRoundTrip ==
    Written =>
        get_spark_filename(opt_text)
            = Derived[2] \o "_" \o Derived[3] \o "_" \o Derived[4]

\* The options file is written for a path with blanks in it.
C21_Witness ==
    /\ Written
    /\ argv.fmri = "/d/sub-x. y_bold.nii"
    /\ get_spark_filename(opt_text) = "sub_x_y_ses_cspark_1_run_cspark_1"

\* A string of letters, digits and underscores only.
WordOnly(s) == \A i \in 1..Len(s) : Char(s, i) \in WordChars

\* The word characters of a string other than the underscore, in order.
LettersOf(s) ==
    ConcatRange([i \in 1..Len(s) |->
                    IF Char(s, i) \in WordChars \ {"_"} THEN Char(s, i) ELSE ""],
                1, Len(s))

\* The places of a token where a maximal run of non-word characters
\* starts, the places of the underscores of an identifier, and the number
\* of letters and digits before a place.
RunStarts(token) ==
    {i \in 1..Len(token) :
        /\ Char(token, i) \notin WordChars
        /\ i = 1 \/ Char(token, i - 1) \in WordChars}
UnderscoresOf(id) == {i \in 1..Len(id) : Char(id, i) = "_"}
LettersBefore(s, i) ==
    Cardinality({j \in 1..(i - 1) : Char(s, j) \in WordChars \ {"_"}})

\* id is the token (a token has no underscore) with one underscore in the
\* place of each maximal run of other characters.
NormalizedFrom(token, id) ==
    /\ WordOnly(id)
    /\ LettersOf(id) = LettersOf(token)
    /\ Cardinality(UnderscoresOf(id)) = Cardinality(RunStarts(token))
    /\ {LettersBefore(id, i) : i \in UnderscoresOf(id)}
           = {LettersBefore(token, i) : i \in RunStarts(token)}

\* C22: the subject, session and run identifiers setup_fmri returns hold
\* letters, digits and underscores only; an identifier taken from a token
\* is that token with each maximal run of other characters replaced by one
\* underscore, and otherwise it is a placeholder of that form.
C22_IdentifierCharacters ==
    oargs.fmri_list # <<>> =>
        LET n == Len(FmriTokens)
            ids == oargs.fmri_list
        IN  /\ \A k \in 2..4 : WordOnly(ids[k])
            /\ NormalizedFrom(FmriTokens[1], ids[2])
            /\ IF StartsWith(FmriTokens[2], "ses-")
               THEN NormalizedFrom(FmriTokens[2], ids[3])
               ELSE ids[3] = "ses_cspark_1"
            /\ IF StartsWith(FmriTokens[n - 1], "run-")
               THEN NormalizedFrom(FmriTokens[n - 1], ids[4])
               ELSE ids[4] = "run_cspark_1"

\* A subject token with a run of two characters that are not word
\* characters, a blank among them, has become an identifier.
C22_Witness ==
    /\ oargs.fmri_list # <<>>
    /\ FmriTokens[1] = "sub-x. y"
    /\ oargs.fmri_list[2] = "sub_x_y"

---------------------------------------------------------------------------
(* Validation and side effects *)

\* A step leaves the file system as it is, and the executable has not run.
Untouched == files' = files /\ dirs' = dirs /\ opt_text' = opt_text /\ shell' = <<>>

\* A handler exits with status 1 from its checks: check_iargs of setup, run
\* or wrap-up, or the reading of the fragment in wrap-up.
ValidationExit ==
    /\ pc \in {"setup", "run", "wrapup", "rename_outputs"}
    /\ pc' = "exited" /\ outcome' = "exit1"

\* C23: up to the end of the checks of a handler nothing is created,
\* written, renamed, moved or removed and the executable is not run, and
\* the step in which a handler exits with status 1 from a check changes
\* nothing either.
C23_ValidationFirst ==
    [][/\ pc \in {"spark", "setup", "run", "wrapup"} => Untouched
       /\ ValidationExit => Untouched]_vars

\* Wrap-up has found no fmri_data line in an options file that is there,
\* and has exited with the pipeline files where they were.
C23_Witness ==
    /\ pc = "exited" /\ outcome = "exit1" /\ called = <<"wrapup">>
    /\ stderr = <<"Failed to read option fmri_data from the pipeline file">>
    /\ shell = <<>>
    /\ files = PipelineFiles
    /\ PipelinesDir(Base) \in dirs

---------------------------------------------------------------------------
(* The renaming step, twice *)

\* C24: a second renaming step with the same options file, on the tree the
\* first has left, changes nothing.
C24_RenameIdempotent ==
    [][Renamed =>
         LET once == FileSystem(files', dirs')
         IN  rename_outputs(once, oargs.out_dir, oargs.pipe_file, opt_text) = once]_vars

===========================================================================
